---- MODULE Spec2Model ----
(***************************************************************************)
(* A model of sdef_mcp.py: the SDEF parser (SDEFParser), its type          *)
(* resolution, the per-process cache (_sdef_cache, _get_parser) and the    *)
(* lookup and search tools built on the parsed dictionary.                 *)
(*                                                                         *)
(* Text is modelled as a sequence of one-character strings, so that        *)
(* str.lower(), the "in" substring test, concatenation, join and sorted()  *)
(* are computed and not assumed.  An optional value (Python's None or a    *)
(* value) is a sequence of length 0 or 1.                                  *)
(***************************************************************************)
EXTENDS Naturals, Sequences, FiniteSets

VARIABLES cache, calls, reqs, inp, out

vars == <<cache, calls, reqs, inp, out>>

(***************************************************************************)
(* Bounds of the model.                                                    *)
(***************************************************************************)
MaxTypeChildren == 2

MaxSuiteKids == 2

MaxSuites == 2

MaxCalls == 2

MaxQueryKids == 2

MaxRequests == 2

(***************************************************************************)
(* Text.                                                                   *)
(***************************************************************************)
S_yes == <<"y", "e", "s">>

S_no == <<"n", "o">>

S_any == <<"a", "n", "y">>

S_list_of == <<"l", "i", "s", "t", " ", "o", "f", " ">>

S_bar == <<" ", "|", " ">>

S_rw == <<"r", "w">>

\* str.lower() on one character of the model's alphabet.
LowerChar(c) ==
    CASE c = "A" -> "a"
      [] c = "B" -> "b"
      [] OTHER -> c

\* str.lower()
Lower(s) == [i \in DOMAIN s |-> LowerChar(s[i])]

\* The code point of a character, the order sorted() compares text by.
CharCode(c) ==
    CASE c = " " -> 32
      [] c = "A" -> 65
      [] c = "B" -> 66
      [] c = "a" -> 97
      [] c = "b" -> 98
      [] c = "t" -> 116
      [] c = "u" -> 117
      [] OTHER -> 0

\* Python's "q in s" on text: q occurs in s as a contiguous run.
Contains(s, q) ==
    \E k \in 0..Len(s) :
        /\ k + Len(q) <= Len(s)
        /\ \A i \in 1..Len(q) : s[k + i] = q[i]

\* Python's sep.join(parts)
RECURSIVE Join(_, _)
Join(parts, sep) ==
    IF parts = <<>> THEN <<>>
    ELSE IF Len(parts) = 1 THEN parts[1]
    ELSE parts[1] \o sep \o Join(Tail(parts), sep)

(***************************************************************************)
(* xml.etree.ElementTree elements: a tag, the attributes as a set of       *)
(* <<name, value>> pairs (names unique), and the children in order.        *)
(***************************************************************************)
El(tag, attrs, children) == [tag |-> tag, attrs |-> attrs, children |-> children]

\* "a" is an attribute of el: el.get(a) is not None.
Has(el, a) == \E p \in el.attrs : p[1] = a

\* el.get(a, default)
Get(el, a, default) ==
    IF Has(el, a) THEN (CHOOSE p \in el.attrs : p[1] = a)[2] ELSE default

\* el.findall(tag): the direct children with that tag, in document order.
FindAll(el, tag) == SelectSeq(el.children, LAMBDA c : c.tag = tag)

\* el.find(tag): the first such child, or None.
Find(el, tag) ==
    IF FindAll(el, tag) = <<>> THEN <<>> ELSE <<Head(FindAll(el, tag))>>

\* Python truthiness of el.get(a): present and not the empty text.
Truthy(el, a) == Has(el, a) /\ Get(el, a, <<>>) # <<>>

(***************************************************************************)
(* SDEFParser._resolve_type                                                *)
(***************************************************************************)
\* Lines 65-69: one nested <type> child's name.
TypePart(t) ==
    IF Get(t, "list", <<>>) = S_yes
    THEN S_list_of \o Get(t, "type", S_any)
    ELSE Get(t, "type", S_any)

\* A slip this code could have: testing the attribute's presence, not its truth.
ResolveType_Presence(el) ==
    IF Has(el, "type")
    THEN IF Get(el, "list", <<>>) = S_yes
         THEN S_list_of \o Get(el, "type", S_any)
         ELSE Get(el, "type", S_any)
    ELSE IF FindAll(el, "type") # <<>>
    THEN Join([i \in DOMAIN FindAll(el, "type") |-> TypePart(FindAll(el, "type")[i])], S_bar)
    ELSE S_any

ResolveType(el) ==
    IF Truthy(el, "type")
    THEN IF Get(el, "list", <<>>) = S_yes
         THEN S_list_of \o Get(el, "type", S_any)
         ELSE Get(el, "type", S_any)
    ELSE IF FindAll(el, "type") # <<>>
    THEN Join([i \in DOMAIN FindAll(el, "type") |-> TypePart(FindAll(el, "type")[i])], S_bar)
    ELSE S_any

(***************************************************************************)
(* SDEFParser: the element parsers.  A parsed record keeps the code's keys. *)
(***************************************************************************)
\* Lines 108-112: the direct parameter's record.
ParseDirectParameter(dp) ==
    [type |-> ResolveType(dp),
     description |-> Get(dp, "description", <<>>),
     optional |-> (Get(dp, "optional", S_no) = S_yes)]

\* Lines 114-120: one named parameter's record.
ParseParameter(p) ==
    [name |-> Get(p, "name", <<>>),
     code |-> Get(p, "code", <<>>),
     type |-> ResolveType(p),
     description |-> Get(p, "description", <<>>),
     optional |-> (Get(p, "optional", S_no) = S_yes)]

\* Lines 123-126: the result's record.
ParseResult(res) ==
    [type |-> ResolveType(res),
     description |-> Get(res, "description", <<>>)]

\* SDEFParser._parse_command
ParseCommand(el) ==
    [name |-> Get(el, "name", <<>>),
     code |-> Get(el, "code", <<>>),
     description |-> Get(el, "description", <<>>),
     direct_parameter |->
        IF Find(el, "direct-parameter") = <<>> THEN <<>>
        ELSE <<ParseDirectParameter(Find(el, "direct-parameter")[1])>>,
     parameters |->
        [i \in DOMAIN FindAll(el, "parameter") |-> ParseParameter(FindAll(el, "parameter")[i])],
     result |->
        IF Find(el, "result") = <<>> THEN <<>>
        ELSE <<ParseResult(Find(el, "result")[1])>>]

\* Lines 142-148: one property's record.
ParseProperty(p) ==
    [name |-> Get(p, "name", <<>>),
     code |-> Get(p, "code", <<>>),
     type |-> ResolveType(p),
     access |-> Get(p, "access", S_rw),
     description |-> Get(p, "description", <<>>)]

\* Lines 150-153: one element's record.
ParseElement(e) ==
    [type |-> ResolveType(e),
     access |-> Get(e, "access", S_rw)]

\* Line 155: rt.get("command", "") or rt.get("name", "")
RespondsToName(rt) ==
    IF Get(rt, "command", <<>>) # <<>>
    THEN Get(rt, "command", <<>>)
    ELSE Get(rt, "name", <<>>)

\* SDEFParser._parse_class
ParseClass(el) ==
    [name |-> Get(el, "name", <<>>),
     code |-> Get(el, "code", <<>>),
     description |-> Get(el, "description", <<>>),
     inherits |-> Get(el, "inherits", <<>>),
     plural |-> Get(el, "plural", <<>>),
     properties |->
        [i \in DOMAIN FindAll(el, "property") |-> ParseProperty(FindAll(el, "property")[i])],
     elements |->
        [i \in DOMAIN FindAll(el, "element") |-> ParseElement(FindAll(el, "element")[i])],
     responds_to |->
        SelectSeq(
            [i \in DOMAIN FindAll(el, "responds-to") |-> RespondsToName(FindAll(el, "responds-to")[i])],
            LAMBDA n : n # <<>>),
     is_extension |-> FALSE]

\* Lines 90-91: a class-extension's record, marked.
ParseClassExtension(el) == [ParseClass(el) EXCEPT !.is_extension = TRUE]

\* SDEFParser._parse_enum
ParseEnum(el) ==
    [name |-> Get(el, "name", <<>>),
     code |-> Get(el, "code", <<>>),
     values |->
        [i \in DOMAIN FindAll(el, "enumerator") |->
            [name |-> Get(FindAll(el, "enumerator")[i], "name", <<>>),
             code |-> Get(FindAll(el, "enumerator")[i], "code", <<>>),
             description |-> Get(FindAll(el, "enumerator")[i], "description", <<>>)]]]

\* A slip this code could have: one pass over the children, taking each class
\* and class-extension as it comes.
SuiteClasses_OnePass(suite_el) ==
    [i \in DOMAIN SelectSeq(suite_el.children,
                            LAMBDA c : c.tag \in {"class", "class-extension"}) |->
        LET c == SelectSeq(suite_el.children,
                           LAMBDA k : k.tag \in {"class", "class-extension"})[i]
        IN  IF c.tag = "class" THEN ParseClass(c) ELSE ParseClassExtension(c)]

\* Lines 87-92: the suite's classes, the <class> children and then the
\* <class-extension> children.
SuiteClasses(suite_el) ==
    [i \in DOMAIN FindAll(suite_el, "class") |-> ParseClass(FindAll(suite_el, "class")[i])]
    \o [i \in DOMAIN FindAll(suite_el, "class-extension") |->
            ParseClassExtension(FindAll(suite_el, "class-extension")[i])]

\* Lines 77-94: one suite's record.
ParseSuite(suite_el) ==
    [name |-> Get(suite_el, "name", <<>>),
     code |-> Get(suite_el, "code", <<>>),
     description |-> Get(suite_el, "description", <<>>),
     commands |->
        [i \in DOMAIN FindAll(suite_el, "command") |-> ParseCommand(FindAll(suite_el, "command")[i])],
     classes |-> SuiteClasses(suite_el),
     enumerations |->
        [i \in DOMAIN FindAll(suite_el, "enumeration") |->
            ParseEnum(FindAll(suite_el, "enumeration")[i])]]

\* SDEFParser.__init__ and _parse on a well-formed text's root: the Document.
Parse(root) ==
    [title |-> Get(root, "title", <<>>),
     suites |-> [i \in DOMAIN FindAll(root, "suite") |-> ParseSuite(FindAll(root, "suite")[i])]]

(***************************************************************************)
(* sorted(): ascending by code point, a proper prefix before its           *)
(* extensions.                                                             *)
(***************************************************************************)
TextLess(s, t) ==
    \/ /\ Len(s) < Len(t)
       /\ \A i \in 1..Len(s) : s[i] = t[i]
    \/ \E k \in 1..Len(s) :
        /\ k <= Len(t)
        /\ \A i \in 1..(k - 1) : s[i] = t[i]
        /\ CharCode(s[k]) < CharCode(t[k])

\* sorted(S) for a set S of texts
RECURSIVE Sorted(_)
Sorted(S) ==
    IF S = {} THEN <<>>
    ELSE LET m == CHOOSE x \in S : \A y \in S : x = y \/ TextLess(x, y)
         IN  <<m>> \o Sorted(S \ {m})

\* The concatenation of a sequence of sequences, in order: what a loop that
\* appends to one list builds.
RECURSIVE Flatten(_)
Flatten(ss) == IF ss = <<>> THEN <<>> ELSE Head(ss) \o Flatten(Tail(ss))

(***************************************************************************)
(* Formatters.  A rendering is kept as the record of the fields the        *)
(* formatter prints, in the order it prints them, and a joined text as the *)
(* sequence of its parts.                                                  *)
(***************************************************************************)
\* The names of a sequence of parsed records, in order.
ParsedNames(recs) == [i \in DOMAIN recs |-> recs[i].name]

\* _fmt_suites_overview: per suite its name, its description and the counts.
FmtSuitesOverview(p) ==
    [s \in DOMAIN p.suites |->
        [name |-> p.suites[s].name,
         description |-> p.suites[s].description,
         commands |-> Len(p.suites[s].commands),
         classes |-> Len(p.suites[s].classes),
         enums |-> Len(p.suites[s].enumerations)]]

\* _fmt_command_signature: name, <direct type>, name:type pairs, result type,
\* description; the records' codes and the parameters' descriptions are not printed.
FmtCommandSignature(cmd) ==
    [name |-> cmd.name,
     direct |-> [i \in DOMAIN cmd.direct_parameter |->
                    [type |-> cmd.direct_parameter[i].type,
                     optional |-> cmd.direct_parameter[i].optional]],
     params |-> [i \in DOMAIN cmd.parameters |->
                    [name |-> cmd.parameters[i].name,
                     type |-> cmd.parameters[i].type,
                     optional |-> cmd.parameters[i].optional]],
     result |-> [i \in DOMAIN cmd.result |-> cmd.result[i].type],
     description |-> cmd.description]

\* The one-line class summary of _fmt_suite_detail.
FmtClassLine(cls) ==
    [name |-> cls.name,
     inherits |-> cls.inherits,
     ext |-> cls.is_extension,
     properties |-> Len(cls.properties),
     elements |-> Len(cls.elements),
     description |-> cls.description]

\* _fmt_suite_detail
FmtSuiteDetail(suite) ==
    [name |-> suite.name,
     description |-> suite.description,
     commands |-> [i \in DOMAIN suite.commands |-> FmtCommandSignature(suite.commands[i])],
     classes |-> [i \in DOMAIN suite.classes |-> FmtClassLine(suite.classes[i])],
     enums |-> [i \in DOMAIN suite.enumerations |->
                  [name |-> suite.enumerations[i].name,
                   values |-> ParsedNames(suite.enumerations[i].values)]]]

\* _fmt_command_detail: the header with the suite tag, then every field but the codes.
FmtCommandDetail(cmd, suite_name) ==
    [header |-> cmd.name,
     suite |-> suite_name,
     description |-> cmd.description,
     direct |-> cmd.direct_parameter,
     params |-> [i \in DOMAIN cmd.parameters |->
                    [name |-> cmd.parameters[i].name,
                     type |-> cmd.parameters[i].type,
                     optional |-> cmd.parameters[i].optional,
                     description |-> cmd.parameters[i].description]],
     result |-> cmd.result]

\* _fmt_class_detail
FmtClassDetail(cls, suite_name) ==
    [header |-> cls.name,
     suite |-> suite_name,
     inherits |-> cls.inherits,
     plural |-> cls.plural,
     extension |-> cls.is_extension,
     description |-> cls.description,
     properties |-> [i \in DOMAIN cls.properties |->
                        [name |-> cls.properties[i].name,
                         type |-> cls.properties[i].type,
                         access |-> cls.properties[i].access,
                         description |-> cls.properties[i].description]],
     elements |-> [i \in DOMAIN cls.elements |-> cls.elements[i].type],
     responds_to |-> cls.responds_to]

\* _fmt_enum_detail
FmtEnumDetail(enum, suite_name) ==
    [header |-> enum.name,
     suite |-> suite_name,
     values |-> [i \in DOMAIN enum.values |->
                    [name |-> enum.values[i].name,
                     description |-> enum.values[i].description]]]

(***************************************************************************)
(* The tools' results over a loaded parser p.  A lookup's result is the    *)
(* list of rendered definitions (joined by blank lines in the text) or,    *)
(* when that list is empty, the not-found line with the available names.   *)
(***************************************************************************)
\* get_app_suites, lines 446-447: "parser.title or app_name", then the overview.
AppSuitesReturn(p, app_name) ==
    [title |-> p.title,
     app |-> IF p.title = <<>> THEN <<app_name>> ELSE <<>>,
     overview |-> FmtSuitesOverview(p)]

\* get_suite_detail, lines 461-465: the first suite of that name, or the
\* suites' names as they come.
SuiteDetailReturn(p, suite_name) ==
    LET hit == SelectSeq(p.suites, LAMBDA su : Lower(su.name) = Lower(suite_name))
    IN  IF hit # <<>>
        THEN [found |-> TRUE, results |-> <<FmtSuiteDetail(Head(hit))>>, available |-> <<>>]
        ELSE [found |-> FALSE, results |-> <<>>, available |-> ParsedNames(p.suites)]

\* Lines 479-483: the matching commands of every suite, each with its suite's name.
CommandResults(p, command_name) ==
    Flatten([s \in DOMAIN p.suites |->
        Flatten([i \in DOMAIN p.suites[s].commands |->
            IF Lower(p.suites[s].commands[i].name) = Lower(command_name)
            THEN <<FmtCommandDetail(p.suites[s].commands[i], p.suites[s].name)>>
            ELSE <<>>])])

\* Lines 509-512
ClassResults(p, class_name) ==
    Flatten([s \in DOMAIN p.suites |->
        Flatten([i \in DOMAIN p.suites[s].classes |->
            IF Lower(p.suites[s].classes[i].name) = Lower(class_name)
            THEN <<FmtClassDetail(p.suites[s].classes[i], p.suites[s].name)>>
            ELSE <<>>])])

\* Lines 535-538
EnumResults(p, enum_name) ==
    Flatten([s \in DOMAIN p.suites |->
        Flatten([i \in DOMAIN p.suites[s].enumerations |->
            IF Lower(p.suites[s].enumerations[i].name) = Lower(enum_name)
            THEN <<FmtEnumDetail(p.suites[s].enumerations[i], p.suites[s].name)>>
            ELSE <<>>])])

\* A slip this code could have: the names as they come, neither deduplicated nor sorted.
Available_AsTheyCome(p, field) ==
    Flatten([s \in DOMAIN p.suites |-> ParsedNames(p.suites[s][field])])

\* Lines 489-493, 517-521, 543-547: sorted({x["name"] for suite ... for x in suite[field]})
Available(p, field) ==
    Sorted(UNION {{p.suites[s][field][i].name : i \in DOMAIN p.suites[s][field]} :
                    s \in DOMAIN p.suites})

\* What a lookup returns: lines 485-494, 514-522, 540-548.
LookupReturn(results, available) ==
    IF results # <<>>
    THEN [found |-> TRUE, results |-> results, available |-> <<>>]
    ELSE [found |-> FALSE, results |-> <<>>, available |-> available]

\* A slip this code could have: returning at the first match.
CommandReturn_FirstOnly(p, command_name) ==
    LookupReturn(IF CommandResults(p, command_name) = <<>> THEN <<>>
                 ELSE <<Head(CommandResults(p, command_name))>>,
                 Available(p, "commands"))

\* get_command
CommandReturn(p, command_name) ==
    LookupReturn(CommandResults(p, command_name), Available(p, "commands"))

\* get_class
ClassReturn(p, class_name) ==
    LookupReturn(ClassResults(p, class_name), Available(p, "classes"))

\* get_enumeration
EnumReturn(p, enum_name) ==
    LookupReturn(EnumResults(p, enum_name), Available(p, "enumerations"))

(***************************************************************************)
(* search_dictionary.  A hit is the tag, the suite's name and the fields   *)
(* of its line; "pos" (suite, group, entity, member) is not printed: it    *)
(* records which entity of the parser the hit was appended for.            *)
(***************************************************************************)
\* Line 569, 574, 583: q in x["name"].lower() or q in (x.get("description") or "").lower()
NameOrDescriptionHas(x, q) ==
    Contains(Lower(x.name), q) \/ Contains(Lower(x.description), q)

\* Lines 568-571
CommandHits(s, suite, q) ==
    Flatten([i \in DOMAIN suite.commands |->
        IF NameOrDescriptionHas(suite.commands[i], q)
        THEN <<[kind |-> "CMD", sn |-> suite.name,
                line |-> FmtCommandSignature(suite.commands[i]),
                pos |-> <<s, 1, i, 0>>]>>
        ELSE <<>>])

\* Lines 582-587: the hits among one class's properties.
PropertyHits(s, suite, i, q) ==
    Flatten([j \in DOMAIN suite.classes[i].properties |->
        IF NameOrDescriptionHas(suite.classes[i].properties[j], q)
        THEN <<[kind |-> "PROP", sn |-> suite.name,
                line |-> [class |-> suite.classes[i].name,
                          name |-> suite.classes[i].properties[j].name,
                          type |-> suite.classes[i].properties[j].type,
                          access |-> suite.classes[i].properties[j].access],
                pos |-> <<s, 2, i, j>>]>>
        ELSE <<>>])

\* Lines 573-587
ClassHits(s, suite, q) ==
    Flatten([i \in DOMAIN suite.classes |->
        (IF NameOrDescriptionHas(suite.classes[i], q)
         THEN <<[kind |-> "CLS", sn |-> suite.name,
                 line |-> [name |-> suite.classes[i].name,
                           inherits |-> suite.classes[i].inherits,
                           properties |-> Len(suite.classes[i].properties),
                           elements |-> Len(suite.classes[i].elements)],
                 pos |-> <<s, 2, i, 0>>]>>
         ELSE <<>>)
        \o PropertyHits(s, suite, i, q)])

\* Lines 594-599: the hits among one enumeration's values.
ValueHits(s, suite, i, q) ==
    Flatten([j \in DOMAIN suite.enumerations[i].values |->
        IF Contains(Lower(suite.enumerations[i].values[j].name), q)
        THEN <<[kind |-> "VAL", sn |-> suite.name,
                line |-> [enum |-> suite.enumerations[i].name,
                          name |-> suite.enumerations[i].values[j].name,
                          description |-> suite.enumerations[i].values[j].description],
                pos |-> <<s, 3, i, j>>]>>
        ELSE <<>>])

\* The one hit of an enumeration whose own name matches: lines 591-592.
EnumHit(s, suite, i) ==
    [kind |-> "ENUM", sn |-> suite.name,
     line |-> [name |-> suite.enumerations[i].name,
               values |-> ParsedNames(suite.enumerations[i].values)],
     pos |-> <<s, 3, i, 0>>]

\* A slip this code could have: an "if" without its "else", the values
\* searched whether or not the enumeration's name matched.
EnumerationHits_NoElse(s, suite, q) ==
    Flatten([i \in DOMAIN suite.enumerations |->
        (IF Contains(Lower(suite.enumerations[i].name), q)
         THEN <<EnumHit(s, suite, i)>>
         ELSE <<>>)
        \o ValueHits(s, suite, i, q)])

\* Lines 589-599
EnumerationHits(s, suite, q) ==
    Flatten([i \in DOMAIN suite.enumerations |->
        IF Contains(Lower(suite.enumerations[i].name), q)
        THEN <<EnumHit(s, suite, i)>>
        ELSE ValueHits(s, suite, i, q)])

\* A slip this code could have: the enumerations searched before the classes.
SuiteHits_EnumsFirst(s, suite, q) ==
    CommandHits(s, suite, q) \o EnumerationHits(s, suite, q) \o ClassHits(s, suite, q)

\* Lines 566-599: one suite's hits.
SuiteHits(s, suite, q) ==
    CommandHits(s, suite, q) \o ClassHits(s, suite, q) \o EnumerationHits(s, suite, q)

\* A slip this code could have: the hits list kept between calls (a
\* module-level list, never cleared), so a search adds to the hits of the last.
SearchReturn_KeepsHits(p, query) ==
    LET kept == IF out # <<>> /\ inp[1].op = "search_dictionary" /\ out[1].error = ""
                THEN out[1].ret[1].hits ELSE <<>>
        hits == kept \o Flatten([s \in DOMAIN p.suites |->
                                    SuiteHits(s, p.suites[s], Lower(query))])
    IN  [found |-> hits # <<>>, count |-> Len(hits), hits |-> hits]

\* search_dictionary, lines 561-604: q = query.lower(), the hits of every suite
\* in turn, and their count.
SearchReturn(p, query) ==
    LET hits == Flatten([s \in DOMAIN p.suites |-> SuiteHits(s, p.suites[s], Lower(query))])
    IN  [found |-> hits # <<>>, count |-> Len(hits), hits |-> hits]

(***************************************************************************)
(* The cache and the provider.  cache is _sdef_cache: a function from the  *)
(* application names stored so far to their parsers.  calls counts the     *)
(* invocations of _find_app_path ("locate") and _get_sdef_xml ("fetch")    *)
(* per application name.  What the provider answers is outside the         *)
(* program: an outcome o is what one load would meet, namely no bundle     *)
(* found, sdef failing, a text that is not well-formed XML, or a           *)
(* well-formed text with root o.root.                                      *)
(***************************************************************************)
Apps == {"Safari", "safari"}

NoCalls == [locate |-> [a \in Apps |-> 0], fetch |-> [a \in Apps |-> 0]]

Counted(c, what, app) == [c EXCEPT ![what][app] = @ + 1]

\* _sdef_cache[app_name] = parser
Stored(c, app, parser) ==
    [a \in DOMAIN c \cup {app} |-> IF a = app THEN parser ELSE c[a]]

\* A slip this code could have: storing the failure of a load.
GetParser_MemoizeFailure(app, o) ==
    IF app \in DOMAIN cache
    THEN [cache |-> cache, calls |-> calls, error |-> "", parser |-> <<cache[app]>>]
    ELSE IF o.kind = "AppNotFound"
    THEN [cache |-> Stored(cache, app, Parse(El("dictionary", {}, <<>>))),
          calls |-> Counted(calls, "locate", app),
          error |-> "AppNotFound", parser |-> <<>>]
    ELSE IF o.kind = "ExtractionError"
    THEN [cache |-> Stored(cache, app, Parse(El("dictionary", {}, <<>>))),
          calls |-> Counted(Counted(calls, "locate", app), "fetch", app),
          error |-> "ExtractionError", parser |-> <<>>]
    ELSE IF o.kind = "Malformed"
    THEN [cache |-> Stored(cache, app, Parse(El("dictionary", {}, <<>>))),
          calls |-> Counted(Counted(calls, "locate", app), "fetch", app),
          error |-> "MalformedDocument", parser |-> <<>>]
    ELSE [cache |-> Stored(cache, app, Parse(o.root)),
          calls |-> Counted(Counted(calls, "locate", app), "fetch", app),
          error |-> "",
          parser |-> <<Stored(cache, app, Parse(o.root))[app]>>]

\* A slip this code could have: loading on every call, the cache never consulted.
GetParser_AlwaysLoad(app, o) ==
    IF o.kind = "AppNotFound"
    THEN [cache |-> cache, calls |-> Counted(calls, "locate", app),
          error |-> "AppNotFound", parser |-> <<>>]
    ELSE IF o.kind = "ExtractionError"
    THEN [cache |-> cache, calls |-> Counted(Counted(calls, "locate", app), "fetch", app),
          error |-> "ExtractionError", parser |-> <<>>]
    ELSE IF o.kind = "Malformed"
    THEN [cache |-> cache, calls |-> Counted(Counted(calls, "locate", app), "fetch", app),
          error |-> "MalformedDocument", parser |-> <<>>]
    ELSE [cache |-> Stored(cache, app, Parse(o.root)),
          calls |-> Counted(Counted(calls, "locate", app), "fetch", app),
          error |-> "",
          parser |-> <<Stored(cache, app, Parse(o.root))[app]>>]

\* A slip this code could have: the name lowered before it keys the cache
\* (app_name.lower() in the test and in the store), so one spelling's parser
\* answers for the other.
GetParser_Normalized(app, o) ==
    LET key == IF app = "Safari" THEN "safari" ELSE app
    IN  IF key \in DOMAIN cache
        THEN [cache |-> cache, calls |-> calls, error |-> "", parser |-> <<cache[key]>>]
        ELSE IF o.kind = "AppNotFound"
        THEN [cache |-> cache, calls |-> Counted(calls, "locate", app),
              error |-> "AppNotFound", parser |-> <<>>]
        ELSE IF o.kind = "ExtractionError"
        THEN [cache |-> cache,
              calls |-> Counted(Counted(calls, "locate", app), "fetch", app),
              error |-> "ExtractionError", parser |-> <<>>]
        ELSE IF o.kind = "Malformed"
        THEN [cache |-> cache,
              calls |-> Counted(Counted(calls, "locate", app), "fetch", app),
              error |-> "MalformedDocument", parser |-> <<>>]
        ELSE [cache |-> Stored(cache, key, Parse(o.root)),
              calls |-> Counted(Counted(calls, "locate", app), "fetch", app),
              error |-> "",
              parser |-> <<Stored(cache, key, Parse(o.root))[key]>>]

\* _get_parser(app_name) run to its end in the state (cache, calls), the
\* provider answering o: the cache and the counts it leaves, the error it
\* raises ("" for none) and the parser it returns.
GetParser(app, o) ==
    IF app \in DOMAIN cache
    THEN [cache |-> cache, calls |-> calls, error |-> "", parser |-> <<cache[app]>>]
    ELSE IF o.kind = "AppNotFound"
    THEN [cache |-> cache, calls |-> Counted(calls, "locate", app),
          error |-> "AppNotFound", parser |-> <<>>]
    ELSE IF o.kind = "ExtractionError"
    THEN [cache |-> cache, calls |-> Counted(Counted(calls, "locate", app), "fetch", app),
          error |-> "ExtractionError", parser |-> <<>>]
    ELSE IF o.kind = "Malformed"
    THEN [cache |-> cache, calls |-> Counted(Counted(calls, "locate", app), "fetch", app),
          error |-> "MalformedDocument", parser |-> <<>>]
    ELSE [cache |-> Stored(cache, app, Parse(o.root)),
          calls |-> Counted(Counted(calls, "locate", app), "fetch", app),
          error |-> "",
          parser |-> <<Stored(cache, app, Parse(o.root))[app]>>]

(***************************************************************************)
(* The tools.  Each is one synchronous call: _get_parser, then the result  *)
(* computed from the parser it returned.  inp is the call made, out what   *)
(* came of it: whether line 241 found the name in the cache, the error     *)
(* raised, or the parser used and the text returned.                       *)
(***************************************************************************)
ToolReturn(op, p, app, arg) ==
    CASE op = "get_app_suites" -> AppSuitesReturn(p, app)
      [] op = "get_suite_detail" -> SuiteDetailReturn(p, arg)
      [] op = "get_command" -> CommandReturn(p, arg)
      [] op = "get_class" -> ClassReturn(p, arg)
      [] op = "get_enumeration" -> EnumReturn(p, arg)
      [] op = "search_dictionary" -> SearchReturn(p, arg)

\* The load may run: the model stops counting at MaxCalls invocations.
MayCall(app) == app \in DOMAIN cache \/ calls.locate[app] < MaxCalls

\* What a tool leaves once _get_parser came back with g.
Respond(op, app, arg, g) ==
    /\ cache' = g.cache
    /\ calls' = g.calls
    /\ inp' = <<[op |-> op, app |-> app, arg |-> arg]>>
    /\ out' = <<[hit |-> app \in DOMAIN cache,
                 error |-> g.error,
                 parser |-> g.parser,
                 ret |-> IF g.error # "" THEN <<>>
                         ELSE <<ToolReturn(op, g.parser[1], app, arg)>>]>>
    /\ UNCHANGED reqs

GetAppSuites(app, o) ==
    /\ MayCall(app)
    /\ Respond("get_app_suites", app, <<>>, GetParser(app, o))

GetSuiteDetail(app, suite_name, o) ==
    /\ MayCall(app)
    /\ Respond("get_suite_detail", app, suite_name, GetParser(app, o))

GetCommand(app, command_name, o) ==
    /\ MayCall(app)
    /\ Respond("get_command", app, command_name, GetParser(app, o))

GetClass(app, class_name, o) ==
    /\ MayCall(app)
    /\ Respond("get_class", app, class_name, GetParser(app, o))

GetEnumeration(app, enum_name, o) ==
    /\ MayCall(app)
    /\ Respond("get_enumeration", app, enum_name, GetParser(app, o))

SearchDictionary(app, query, o) ==
    /\ MayCall(app)
    /\ Respond("search_dictionary", app, query, GetParser(app, o))

(***************************************************************************)
(* Typed elements the type-resolution claims range over.                   *)
(***************************************************************************)
TypeTexts == {<<>>, <<"t">>, <<"u">>}

SeqsUpTo(S, n) == UNION {[1..k -> S] : k \in 0..n}

\* The type= and list= attributes a typed element may carry.
TypeAttrSets ==
    {ta \cup la :
        ta \in {{}} \cup {{<<"type", t>>} : t \in TypeTexts},
        la \in {{}, {<<"list", S_yes>>}, {<<"list", S_no>>}}}

TypeChildren ==
    {El("type", a, <<>>) : a \in TypeAttrSets} \cup {El("cocoa", {}, <<>>)}

TypedEls(tag) ==
    {El(tag, a, ch) : a \in TypeAttrSets, ch \in SeqsUpTo(TypeChildren, MaxTypeChildren)}

(***************************************************************************)
(* SpecType: _resolve_type applied to each typed element.                  *)
(***************************************************************************)
NoCache == [a \in {} |-> <<>>]

InitType ==
    /\ inp \in TypedEls("parameter")
    /\ out = <<>>
    /\ cache = NoCache
    /\ calls = <<>>
    /\ reqs = <<>>

DoResolveType ==
    /\ out = <<>>
    /\ out' = <<ResolveType(inp)>>
    /\ UNCHANGED <<cache, calls, reqs, inp>>

NextType == DoResolveType

SpecType == InitType /\ [][NextType]_vars

\* The inline form of a typed element: its type, "list of "-prefixed for list="yes".
InlineForm(e) ==
    IF Get(e, "list", <<>>) = S_yes
    THEN S_list_of \o Get(e, "type", S_any)
    ELSE Get(e, "type", S_any)

\* The nested form: each <type> child's inline form (a child without a type
\* attribute counting as "any"), joined by " | " in child order.
NestedForm(e) ==
    Join([i \in DOMAIN FindAll(e, "type") |-> InlineForm(FindAll(e, "type")[i])], S_bar)

\* The element carries an inline type attribute that is not the empty text.
HasNonEmptyType(e) == \E a \in e.attrs : a[1] = "type" /\ a[2] # <<>>

\* C4 as stated: whenever an inline type attribute exists the result is the
\* inline form and nested descriptors are ignored; otherwise, with nested
\* descriptors, the " | "-join of the children's forms; otherwise "any".
C4_InlineWinsWheneverPresent ==
    out # <<>> =>
        /\ Has(inp, "type") => out[1] = InlineForm(inp)
        /\ (~Has(inp, "type") /\ FindAll(inp, "type") # <<>>) => out[1] = NestedForm(inp)
        /\ (~Has(inp, "type") /\ FindAll(inp, "type") = <<>>) => out[1] = S_any

\* C4 amended: the inline form wins only when the inline type attribute is
\* present and not the empty text; an element whose type attribute is absent
\* or empty resolves to the " | "-join of its <type> children's forms when it
\* has any, and to "any" otherwise.
C4_InlineWinsWhenNonEmpty ==
    out # <<>> =>
        /\ HasNonEmptyType(inp) => out[1] = InlineForm(inp)
        /\ (~HasNonEmptyType(inp) /\ FindAll(inp, "type") # <<>>) => out[1] = NestedForm(inp)
        /\ (~HasNonEmptyType(inp) /\ FindAll(inp, "type") = <<>>) => out[1] = S_any

\* An element with an empty inline type and two nested descriptors, one a list,
\* resolved to the join of the two.
C4_Witness ==
    /\ out # <<>>
    /\ <<"type", <<>>>> \in inp.attrs
    /\ Len(FindAll(inp, "type")) = 2
    /\ out[1] = S_list_of \o <<"t">> \o S_bar \o <<"u">>

(***************************************************************************)
(* SpecParse: the parser applied to well-formed dictionaries.  Three       *)
(* families of input: one suite with a mixed run of children, several      *)
(* suites with at most one child each, and one typed element in each of    *)
(* the five places a type is resolved.                                     *)
(***************************************************************************)
N_a == <<"a">>

N_b == <<"b">>

N_A == <<"A">>

N_Ba == <<"B", "a">>

NameAttr(n) == {<<"name", n>>}

Other == El("documentation", {}, <<>>)

SuiteKids ==
    {El(t, NameAttr(n), <<>>) :
        t \in {"command", "class", "class-extension", "enumeration"}, n \in {N_a, N_b}}
    \cup {Other}

OneSuiteRoots ==
    {El("dictionary", {}, <<El("suite", NameAttr(N_a), kids)>>) :
        kids \in SeqsUpTo(SuiteKids, MaxSuiteKids)}

SmallSuites ==
    {El("suite", NameAttr(n), kids) :
        n \in {N_a, N_b},
        kids \in SeqsUpTo({El(t, NameAttr(N_a), <<>>) :
                            t \in {"command", "class", "class-extension", "enumeration"}}, 1)}

ManySuiteRoots ==
    {El("dictionary", {}, ss) : ss \in SeqsUpTo(SmallSuites \cup {Other}, MaxSuites)}

SlotEls(tag) ==
    {El(tag, a, ch) : a \in TypeAttrSets, ch \in SeqsUpTo(TypeChildren, 1)}

TypedRoots ==
    {El("dictionary", {}, <<El("suite", NameAttr(N_a), <<El("command", NameAttr(N_a), <<t>>)>>)>>) :
        t \in SlotEls("direct-parameter") \cup SlotEls("parameter") \cup SlotEls("result")}
    \cup
    {El("dictionary", {}, <<El("suite", NameAttr(N_a), <<El("class", NameAttr(N_a), <<t>>)>>)>>) :
        t \in SlotEls("property") \cup SlotEls("element")}

InitParse ==
    /\ inp \in OneSuiteRoots \cup ManySuiteRoots \cup TypedRoots
    /\ out = <<>>
    /\ cache = NoCache
    /\ calls = <<>>
    /\ reqs = <<>>

DoParse ==
    /\ out = <<>>
    /\ out' = <<Parse(inp)>>
    /\ UNCHANGED <<cache, calls, reqs, inp>>

NextParse == DoParse

SpecParse == InitParse /\ [][NextParse]_vars

\* Every type string a Document holds.
TypeStrings(doc) ==
    UNION {
        UNION {
            {dp.type : dp \in {cmd.direct_parameter[i] : i \in DOMAIN cmd.direct_parameter}}
            \cup {cmd.parameters[i].type : i \in DOMAIN cmd.parameters}
            \cup {cmd.result[i].type : i \in DOMAIN cmd.result}
            : cmd \in {doc.suites[s].commands[i] : i \in DOMAIN doc.suites[s].commands}}
        \cup
        UNION {
            {cls.properties[i].type : i \in DOMAIN cls.properties}
            \cup {cls.elements[i].type : i \in DOMAIN cls.elements}
            : cls \in {doc.suites[s].classes[i] : i \in DOMAIN doc.suites[s].classes}}
        : s \in DOMAIN doc.suites}

\* C5: in every Document the parser produces, the type string of every
\* parameter, direct parameter, result, property and element is non-empty.
C5_TypeStringsNonEmpty ==
    out # <<>> => \A t \in TypeStrings(out[1]) : t # <<>>

\* The children of el with a tag among tags, in source order, and their names.
KidsTagged(el, tags) == SelectSeq(el.children, LAMBDA c : c.tag \in tags)

SourceNames(els) == [i \in DOMAIN els |-> Get(els[i], "name", <<>>)]

\* What C6 and its amendment share: the suites, and in each suite the commands
\* and the enumerations, are as many as in the source and in the source's order.
SuitesCommandsEnumsInSourceOrder(root, doc) ==
    /\ ParsedNames(doc.suites) = SourceNames(KidsTagged(root, {"suite"}))
    /\ \A s \in DOMAIN doc.suites :
        LET src == KidsTagged(root, {"suite"})[s]
        IN  /\ ParsedNames(doc.suites[s].commands) = SourceNames(KidsTagged(src, {"command"}))
            /\ ParsedNames(doc.suites[s].enumerations)
                   = SourceNames(KidsTagged(src, {"enumeration"}))

\* C6 as stated: counts and source order are kept, the classes sequence holding
\* the class and class-extension records in the order of the source, also when
\* the two kinds are interleaved there.
C6_ClassesInSourceOrder ==
    out # <<>> =>
        /\ SuitesCommandsEnumsInSourceOrder(inp, out[1])
        /\ \A s \in DOMAIN out[1].suites :
            LET src == KidsTagged(KidsTagged(inp, {"suite"})[s], {"class", "class-extension"})
                got == out[1].suites[s].classes
            IN  /\ ParsedNames(got) = SourceNames(src)
                /\ \A i \in DOMAIN got : got[i].is_extension = (src[i].tag = "class-extension")

\* C6 amended: counts are kept, and source order is kept among the suites and,
\* in each suite, among the commands, among the enumerations, among the class
\* records and among the class-extension records; the classes sequence holds
\* all the class records first and all the class-extension records after them.
C6_ClassesThenExtensions ==
    out # <<>> =>
        /\ SuitesCommandsEnumsInSourceOrder(inp, out[1])
        /\ \A s \in DOMAIN out[1].suites :
            LET src == KidsTagged(KidsTagged(inp, {"suite"})[s], {"class"})
                       \o KidsTagged(KidsTagged(inp, {"suite"})[s], {"class-extension"})
                got == out[1].suites[s].classes
            IN  /\ ParsedNames(got) = SourceNames(src)
                /\ \A i \in DOMAIN got : got[i].is_extension = (src[i].tag = "class-extension")

\* A suite whose source has a class-extension before a class, parsed: the class
\* record comes first in the classes sequence.
C6_Witness ==
    /\ out # <<>>
    /\ Len(inp.children) = 1
    /\ Len(inp.children[1].children) = 2
    /\ inp.children[1].children[1].tag = "class-extension"
    /\ inp.children[1].children[2].tag = "class"
    /\ Get(inp.children[1].children[1], "name", <<>>) # Get(inp.children[1].children[2], "name", <<>>)
    /\ Len(out[1].suites[1].classes) = 2
    /\ ~out[1].suites[1].classes[1].is_extension
    /\ out[1].suites[1].classes[2].is_extension

(***************************************************************************)
(* Spec: the server from its start, the tools called one at a time (a      *)
(* FastMCP tool that is a plain function runs to its end before the next   *)
(* call is taken).                                                         *)
(***************************************************************************)
\* The dictionaries the provider may hand out.
ProviderRoots ==
    {El("dictionary", {<<"title", N_a>>},
        <<El("suite", NameAttr(N_a),
            <<El("command", NameAttr(N_a), <<>>), El("class", NameAttr(N_b), <<>>)>>)>>),
     El("dictionary", {},
        <<El("suite", NameAttr(N_b),
            <<El("enumeration", NameAttr(N_b), <<El("enumerator", NameAttr(N_a), <<>>)>>)>>)>>)}

LoadOutcomes ==
    {[kind |-> k, root |-> El("dictionary", {}, <<>>)] :
        k \in {"AppNotFound", "ExtractionError", "Malformed"}}
    \cup {[kind |-> "Loaded", root |-> r] : r \in ProviderRoots}

AskedNames == {N_a, N_b}

Init ==
    /\ cache = NoCache
    /\ calls = NoCalls
    /\ reqs = <<>>
    /\ inp = <<>>
    /\ out = <<>>

Next ==
    \/ \E app \in Apps, o \in LoadOutcomes : GetAppSuites(app, o)
    \/ \E app \in Apps, o \in LoadOutcomes, n \in AskedNames :
        \/ GetSuiteDetail(app, n, o)
        \/ GetCommand(app, n, o)
        \/ GetClass(app, n, o)
        \/ GetEnumeration(app, n, o)
        \/ SearchDictionary(app, n, o)

Spec == Init /\ [][Next]_vars

\* C1: once a name is in the cache, every step keeps its entry as it is, and a
\* call for that name returns the stored parser and invokes neither
\* _find_app_path nor _get_sdef_xml.
C1_CacheHit ==
    [][\A app \in DOMAIN cache :
        /\ app \in DOMAIN cache'
        /\ cache'[app] = cache[app]
        /\ inp'[1].app = app =>
            /\ calls' = calls
            /\ out'[1].error = ""
            /\ out'[1].parser = <<cache[app]>>]_vars

\* A call answered from the cache after both names were loaded, each by one
\* invocation of the provider.
C1_Witness ==
    /\ out # <<>>
    /\ out[1].hit
    /\ out[1].error = ""
    /\ DOMAIN cache = Apps
    /\ cache["Safari"] # cache["safari"]
    /\ out[1].parser = <<cache[inp[1].app]>>
    /\ \A app \in Apps : calls.locate[app] = 1 /\ calls.fetch[app] = 1

\* C2: a call that raises AppNotFound, ExtractionError or MalformedDocument
\* leaves the cache as it was, with no entry for the name and nothing returned;
\* and every call for a name that has no entry invokes the provider.
C2_FailureNotMemoized ==
    [][/\ out'[1].error # "" =>
            /\ out'[1].error \in {"AppNotFound", "ExtractionError", "MalformedDocument"}
            /\ cache' = cache
            /\ inp'[1].app \notin DOMAIN cache'
            /\ out'[1].parser = <<>>
       /\ inp'[1].app \notin DOMAIN cache =>
            calls'.locate[inp'[1].app] = calls.locate[inp'[1].app] + 1]_vars

\* A name loaded at the second attempt, the first having failed when fetching
\* or parsing: two invocations of each step, one entry.
C2_Witness ==
    /\ out # <<>>
    /\ ~out[1].hit
    /\ out[1].error = ""
    /\ inp[1].app \in DOMAIN cache
    /\ calls.locate[inp[1].app] = 2
    /\ calls.fetch[inp[1].app] = 2

(***************************************************************************)
(* SpecQuery: the lookups and the search over a dictionary loaded by a     *)
(* first get_app_suites("Safari").  Two families of dictionary: for the    *)
(* lookups, two suites whose definitions share names up to letter case;    *)
(* for the search, a suite of commands, classes with properties and        *)
(* enumerations with values, alone or followed by a second suite.          *)
(***************************************************************************)
LookupKids ==
    {El("command", NameAttr(n), <<>>) : n \in {N_a, N_A, N_Ba}}
    \cup {El("class", NameAttr(N_a), <<>>), El("class-extension", NameAttr(N_a), <<>>)}
    \cup {El("enumeration", NameAttr(n), <<>>) : n \in {N_a, N_b}}

LookupRoots ==
    {El("dictionary", {},
        <<El("suite", NameAttr(N_a), k1), El("suite", NameAttr(N_b), k2)>>) :
        k1 \in SeqsUpTo(LookupKids, MaxQueryKids), k2 \in SeqsUpTo(LookupKids, 1)}

Prop(n) == El("property", NameAttr(n), <<>>)

Enumerators(ns) == [i \in DOMAIN ns |-> El("enumerator", NameAttr(ns[i]), <<>>)]

SearchKids ==
    {El("command", NameAttr(N_a), <<>>),
     El("command", NameAttr(N_b) \cup {<<"description", N_A>>}, <<>>),
     El("class", NameAttr(N_a), <<Prop(N_a)>>),
     El("class", NameAttr(N_b), <<Prop(N_b), Prop(N_A)>>),
     El("class", NameAttr(N_b) \cup {<<"description", N_a>>}, <<>>)}
    \cup {El("enumeration", NameAttr(n), Enumerators(vs)) :
            n \in {N_a, N_b}, vs \in {<<N_a>>, <<N_a, N_b>>, <<N_A, N_a>>}}

SecondSuite ==
    El("suite", NameAttr(N_b),
        <<El("enumeration", NameAttr(N_b), Enumerators(<<N_a>>)),
          El("command", NameAttr(N_a), <<>>)>>)

SearchRoots ==
    {El("dictionary", {}, <<El("suite", NameAttr(N_a), kids)>> \o more) :
        kids \in SeqsUpTo(SearchKids, MaxQueryKids), more \in {<<>>, <<SecondSuite>>}}

QueryTexts == {<<>>, N_a, N_A, N_b}

Loaded == [kind |-> "Loaded", root |-> El("dictionary", {}, <<>>)]

InitQuery ==
    \E root \in LookupRoots \cup SearchRoots :
        /\ cache = Stored(NoCache, "Safari", Parse(root))
        /\ calls = Counted(Counted(NoCalls, "locate", "Safari"), "fetch", "Safari")
        /\ reqs = <<>>
        /\ inp = <<[op |-> "get_app_suites", app |-> "Safari", arg |-> <<>>]>>
        /\ out = <<[hit |-> FALSE, error |-> "", parser |-> <<Parse(root)>>,
                    ret |-> <<AppSuitesReturn(Parse(root), "Safari")>>]>>

NextQuery ==
    \E n \in QueryTexts :
        \/ GetCommand("Safari", n, Loaded)
        \/ GetClass("Safari", n, Loaded)
        \/ GetEnumeration("Safari", n, Loaded)
        \/ SearchDictionary("Safari", n, Loaded)

SpecQuery == InitQuery /\ [][NextQuery]_vars

\* Two texts equal but for the case of their letters.
SameLetter(c, d) == c = d \/ {c, d} = {"a", "A"} \/ {c, d} = {"b", "B"}

SameIgnoringCase(s, t) ==
    Len(s) = Len(t) /\ \A i \in 1..Len(s) : SameLetter(s[i], t[i])

\* q occurs in s but for the case of the letters.
OccursIgnoringCase(s, q) ==
    \E k \in 0..Len(s) :
        /\ k + Len(q) <= Len(s)
        /\ \A i \in 1..Len(q) : SameLetter(s[k + i], q[i])

\* The parser's field of a lookup tool, and the rendering it returns.
FieldOf(op) ==
    CASE op = "get_command" -> "commands"
      [] op = "get_class" -> "classes"
      [] op = "get_enumeration" -> "enumerations"

DetailOf(op, def, suite_name) ==
    CASE op = "get_command" -> FmtCommandDetail(def, suite_name)
      [] op = "get_class" -> FmtClassDetail(def, suite_name)
      [] op = "get_enumeration" -> FmtEnumDetail(def, suite_name)

IsLookup == out # <<>> /\ inp[1].op \in {"get_command", "get_class", "get_enumeration"}

\* The places <<suite, index>> of the parser's definitions of a kind.
Places(p, field) ==
    UNION {{<<s, i>> : i \in DOMAIN p.suites[s][field]} : s \in DOMAIN p.suites}

\* The places of the definitions named n but for case.
Matching(p, field, n) ==
    {m \in Places(p, field) : SameIgnoringCase(p.suites[m[1]][field][m[2]].name, n)}

\* A place's rank among a set of places, in document order.
Before(a, b) == a[1] < b[1] \/ (a[1] = b[1] /\ a[2] < b[2])

Rank(m, M) == 1 + Cardinality({x \in M : Before(x, m)})

NamesOfKind(p, field) == {p.suites[m[1]][field][m[2]].name : m \in Places(p, field)}

\* C8: a lookup that matches nothing returns (it raises nothing) the not-found
\* line, whose list of names is in strictly ascending code-point order (so no
\* name is twice in it) and holds exactly the names of that kind of every suite.
C8_NotFoundListsAllNames ==
    (IsLookup /\ Matching(out[1].parser[1], FieldOf(inp[1].op), inp[1].arg) = {}) =>
        LET avail == out[1].ret[1].available
        IN  /\ out[1].error = ""
            /\ ~out[1].ret[1].found
            /\ \A k \in 1..(Len(avail) - 1) : TextLess(avail[k], avail[k + 1])
            /\ {avail[k] : k \in DOMAIN avail}
                   = NamesOfKind(out[1].parser[1], FieldOf(inp[1].op))

\* get_command("b") not found among three commands of two suites, two of them
\* of one name: the list is "A", "Ba".
C8_Witness ==
    /\ IsLookup
    /\ inp[1].op = "get_command"
    /\ ~out[1].ret[1].found
    /\ out[1].ret[1].available = <<N_A, N_Ba>>
    /\ Len(out[1].parser[1].suites[1].commands) = 2
    /\ Len(out[1].parser[1].suites[2].commands) = 1
    /\ out[1].parser[1].suites[1].commands[1].name = N_Ba

IsSearch == out # <<>> /\ inp[1].op = "search_dictionary"

\* How many hits of a kind were appended for a place.
HitsAt(hits, kind, pos) ==
    Cardinality({k \in DOMAIN hits : hits[k].kind = kind /\ hits[k].pos = pos})

\* C9: for every enumeration, if the query occurs in its name but for case the
\* search gives one ENUM hit for it and no VAL hit; otherwise no ENUM hit and
\* one VAL hit for each of its values whose name holds the query, none for
\* the others.
C9_EnumOrItsValues ==
    IsSearch =>
        LET p == out[1].parser[1]
            hits == out[1].ret[1].hits
        IN  \A s \in DOMAIN p.suites : \A i \in DOMAIN p.suites[s].enumerations :
                LET enum == p.suites[s].enumerations[i]
                IN  IF OccursIgnoringCase(enum.name, inp[1].arg)
                    THEN /\ HitsAt(hits, "ENUM", <<s, 3, i, 0>>) = 1
                         /\ \A j \in DOMAIN enum.values : HitsAt(hits, "VAL", <<s, 3, i, j>>) = 0
                    ELSE /\ HitsAt(hits, "ENUM", <<s, 3, i, 0>>) = 0
                         /\ \A j \in DOMAIN enum.values :
                                HitsAt(hits, "VAL", <<s, 3, i, j>>)
                                    = IF OccursIgnoringCase(enum.values[j].name, inp[1].arg)
                                      THEN 1 ELSE 0

\* A search for "A" over an enumeration "a" with a value "a" and an
\* enumeration "b" with the values "A" and "a": one ENUM hit for the first,
\* two VAL hits for the second.
C9_Witness ==
    /\ IsSearch
    /\ inp[1].arg = N_A
    /\ Len(out[1].parser[1].suites) = 1
    /\ LET hits == out[1].ret[1].hits
       IN  /\ Len(hits) = 3
           /\ hits[1].kind = "ENUM" /\ hits[1].line.name = N_a /\ hits[1].line.values = <<N_a>>
           /\ hits[2].kind = "VAL" /\ hits[2].line.enum = N_b /\ hits[2].line.name = N_A
           /\ hits[3].kind = "VAL" /\ hits[3].line.name = N_a

\* One place before another in the parser's traversal: by suite, then by group
\* (the suite's commands, its classes, its enumerations), then by entity, then
\* by member (the entity itself before its properties or values).
PosBefore(a, b) ==
    \E k \in 1..4 : a[k] < b[k] /\ \A j \in 1..(k - 1) : a[j] = b[j]

NoText == [wellformed |-> FALSE, root |-> El("dictionary", {}, <<>>)]

InitConc ==
    /\ cache = NoCache
    /\ calls = NoCalls
    /\ reqs = [r \in 1..MaxRequests |->
                  [pc |-> "idle", app |-> "Safari", xml |-> NoText, parser |-> <<>>]]
    /\ inp = <<>>
    /\ out = <<>>

\* Line 241: if app_name not in _sdef_cache
Begin(r, app) ==
    /\ reqs[r].pc = "idle"
    /\ reqs' = [reqs EXCEPT ![r].app = app,
                            ![r].pc = IF app \in DOMAIN cache THEN "return" ELSE "locate"]
    /\ UNCHANGED <<cache, calls, inp, out>>

\* Lines 242-247: _find_app_path, and the raise when it found nothing.
Locate(r, found) ==
    /\ reqs[r].pc = "locate"
    /\ calls' = Counted(calls, "locate", reqs[r].app)
    /\ reqs' = [reqs EXCEPT ![r].pc = IF found THEN "fetch" ELSE "raised"]
    /\ UNCHANGED <<cache, inp, out>>

\* Line 248: _get_sdef_xml, which raises when sdef fails.
Fetch(r, ok, text) ==
    /\ reqs[r].pc = "fetch"
    /\ calls' = Counted(calls, "fetch", reqs[r].app)
    /\ reqs' = [reqs EXCEPT ![r].pc = IF ok THEN "parse" ELSE "raised",
                            ![r].xml = IF ok THEN text ELSE NoText]
    /\ UNCHANGED <<cache, inp, out>>

\* Line 249: _sdef_cache[app_name] = SDEFParser(xml), which raises on a text
\* that is not well-formed.
ParseAndStore(r) ==
    /\ reqs[r].pc = "parse"
    /\ IF reqs[r].xml.wellformed
       THEN /\ cache' = Stored(cache, reqs[r].app, Parse(reqs[r].xml.root))
            /\ reqs' = [reqs EXCEPT ![r].pc = "return"]
       ELSE /\ cache' = cache
            /\ reqs' = [reqs EXCEPT ![r].pc = "raised"]
    /\ UNCHANGED <<calls, inp, out>>

\* Line 250: return _sdef_cache[app_name]
Return(r) ==
    /\ reqs[r].pc = "return"
    /\ reqs' = [reqs EXCEPT ![r].pc = "done", ![r].parser = <<cache[reqs[r].app]>>]
    /\ UNCHANGED <<cache, calls, inp, out>>

FetchedTexts ==
    {NoText} \cup {[wellformed |-> TRUE, root |-> root] : root \in ProviderRoots}

NextConc ==
    \E r \in 1..MaxRequests :
        \/ \E app \in Apps : Begin(r, app)
        \/ \E found \in BOOLEAN : Locate(r, found)
        \/ \E ok \in BOOLEAN, text \in FetchedTexts : Fetch(r, ok, text)
        \/ ParseAndStore(r)
        \/ Return(r)

SpecConc == InitConc /\ [][NextConc]_vars

\* C3: no two calls in flight for one name have both fetched its dictionary
\* with no entry stored for it yet; the fetch is invoked at most once before
\* the entry is stored.
C3_OneFetchBeforeStore ==
    \A r1 \in DOMAIN reqs : \A r2 \in DOMAIN reqs :
        (/\ r1 # r2
         /\ reqs[r1].app = reqs[r2].app
         /\ reqs[r1].pc = "parse"
         /\ reqs[r2].pc = "parse")
        => reqs[r1].app \in DOMAIN cache

OtherSpelling(app) == IF app = "Safari" THEN "safari" ELSE "Safari"

\* C12: a call under a name that is not in the cache, while the name's other
\* capitalization is, is not answered from the cache: the provider is invoked
\* again, and on success the parser is stored under the name as supplied, next
\* to the other spelling's entry, which stays as it was.
C12_KeyAsSupplied ==
    [][\A app \in Apps :
        (/\ inp'[1].app = app
         /\ app \notin DOMAIN cache
         /\ OtherSpelling(app) \in DOMAIN cache) =>
            /\ ~out'[1].hit
            /\ calls'.locate[app] = calls.locate[app] + 1
            /\ calls'.locate[OtherSpelling(app)] = calls.locate[OtherSpelling(app)]
            /\ out'[1].error = "" =>
                /\ calls'.fetch[app] = calls.fetch[app] + 1
                /\ DOMAIN cache' = DOMAIN cache \cup {app}
                /\ cache'[OtherSpelling(app)] = cache[OtherSpelling(app)]
                /\ out'[1].parser = <<cache'[app]>>]_vars

\* A load under one spelling just stored next to the other spelling's entry,
\* a different parser, the provider invoked once for each.
C12_Witness ==
    /\ out # <<>>
    /\ ~out[1].hit
    /\ out[1].error = ""
    /\ DOMAIN cache = Apps
    /\ cache[inp[1].app] # cache[OtherSpelling(inp[1].app)]
    /\ out[1].parser = <<cache[inp[1].app]>>
    /\ \A app \in Apps : calls.locate[app] = 1 /\ calls.fetch[app] = 1

====
